---- MODULE Spec2Model ----
(***************************************************************************)
(* The statistical decision pipeline of src/hypothesis_testing.py:         *)
(* test_normality, test_variance_homogeneity, research_question_1 and      *)
(* research_question_2.                                                    *)
(*                                                                         *)
(* One behaviour is one call of research_question_1(df) or of              *)
(* research_question_2(df).  The numeric routines of scipy / statsmodels   *)
(* are external: the value each of them returns is drawn from a small set  *)
(* at the step that calls it.  A sample is abstracted to its raw length    *)
(* and its number of non-finite values, which is all test_normality reads  *)
(* of it besides handing it to the library; the values of a group are      *)
(* drawn where the code reads them.                                        *)
(*                                                                         *)
(* p-values are integers in units of 1/1200, so that 0.05 is 60 and        *)
(* 0.05 / C(k,2) is exact for every k the model reaches.                   *)
(***************************************************************************)
EXTENDS Integers, Sequences, FiniteSets, TLC

\* ---------------------------------------------------------------- bounds
MaxGroups == 3
MaxStages == 2
MaxSmall == 3
MaxBad == 1

\* ------------------------------------------------------------- constants
Alpha == 60
LargeSample == 5000
MinFinite == 3
NaN == -1
NoneVal == -2

\* ------------------------------------------------------ float comparisons
\* IEEE comparisons as Python evaluates them: every comparison with NaN is
\* False.
Lt(a, b) == a # NaN /\ b # NaN /\ a < b
Gt(a, b) == a # NaN /\ b # NaN /\ a > b
Le(a, b) == a # NaN /\ b # NaN /\ a <= b
Ge(a, b) == a # NaN /\ b # NaN /\ a >= b

\* ---------------------------------------------------------------- inputs
Lens == (0..MaxSmall) \cup {LargeSample, LargeSample + 1}
Samples == {d \in [len : Lens, bad : 0..MaxBad] : d.bad <= d.len}

\* What the library routines can return.
ShapiroPVals == {NaN, Alpha, Alpha + 1}
LevenePVals == {NaN, Alpha, Alpha + 1}
MainPVals == {NaN, Alpha - 1, Alpha}
AndersonCriticals == {<<1, 3>>, <<2, 4>>}
AndersonStats == {3, 4}
\* PR(>F) of the interaction and of the two main effects
TwoWayTables ==
    {tb \in [interaction : {NaN, Alpha - 1, Alpha},
             rider : {Alpha - 1, Alpha}, stage : {Alpha - 1, Alpha}] :
        tb.rider # tb.stage}
PairPVals(n) == {NaN, (Alpha \div n) - 1, Alpha \div n, Alpha - 1}

\* scipy.stats.anderson(data): statistic and critical values; the statistic
\* of a sample that holds a non-finite value is NaN.
anderson(data) ==
    [statistic : IF data.bad > 0 THEN {NaN} ELSE AndersonStats,
     critical_values : AndersonCriticals]

\* ---------------------------------------------------------- test_normality
NoResult ==
    [test |-> "None", statistic |-> NoneVal, critical_value |-> NoneVal,
     p_value |-> NoneVal, is_normal |-> FALSE]

IsLargeSampleGe(data) == data.len >= LargeSample
IsLargeSample(data) == data.len > LargeSample

LastCritical(res) == res.critical_values[Len(res.critical_values)]

AndersonIsNormal(res) == Lt(res.statistic, LastCritical(res))

AndersonVerdict(res) ==
    [test |-> "Anderson-Darling", statistic |-> res.statistic,
     critical_value |-> LastCritical(res), p_value |-> NoneVal,
     is_normal |-> AndersonIsNormal(res)]

DataCleanKeepAll(data) == data.len
\* len(data[np.isfinite(data)])
DataClean(data) == data.len - data.bad

ShapiroIsNormalGe(p_value, alpha) == Ge(p_value, alpha)
ShapiroIsNormal(p_value, alpha) == Gt(p_value, alpha)

\* The Shapiro-Wilk statistic is only printed; the model leaves it NoneVal.
ShapiroVerdict(p_value, alpha) ==
    [test |-> "Shapiro-Wilk", statistic |-> NoneVal,
     critical_value |-> NoneVal, p_value |-> p_value,
     is_normal |-> ShapiroIsNormal(p_value, alpha)]

\* The set of values test_normality(data, alpha) can return.
test_normality(data, alpha) ==
    IF IsLargeSample(data)
    THEN {AndersonVerdict(res) : res \in anderson(data)}
    ELSE IF DataClean(data) < MinFinite
         THEN {NoResult}
         ELSE {ShapiroVerdict(p, alpha) : p \in ShapiroPVals}

\* Python truthiness of a test_normality result: None is falsy, a dict truthy.
Truthy(r) == r.test # "None"

\* ------------------------------------------------ test_variance_homogeneity
EqualVariancesUnlessLe(p_value, alpha) == ~Le(p_value, alpha)
EqualVariancesGe(p_value, alpha) == Ge(p_value, alpha)
EqualVariances(p_value, alpha) == Gt(p_value, alpha)

NoVariance == [p_value |-> NoneVal, equal_variances |-> FALSE]

test_variance_homogeneity(p_value, alpha) ==
    [p_value |-> p_value, equal_variances |-> EqualVariances(p_value, alpha)]

\* scipy.stats.levene raises ValueError for fewer than two samples.
LeveneRaises(args) == Cardinality(args) < 2

\* ------------------------------------------------------------ shared tests
SignificantLe(p) == Le(p, Alpha)
\* p_value < 0.05
Significant(p) == Lt(p, Alpha)

UseAnovaEither(normal, equal) == normal \/ equal
\* if all_normal and variance_test['equal_variances']
UseAnova(normal, equal) == normal /\ equal

\* len(rider_classes) * (len(rider_classes) - 1) // 2
NumComparisons(n) == (n * (n - 1)) \div 2

\* 0.05 / num_comparisons, kept as the fraction Alpha / num_comparisons
BonferroniAlpha(n) == [num |-> Alpha, den |-> n]

PairSignificantUncorrected(p, b) == Lt(p, b.num)
\* p_val < bonferroni_alpha
PairSignificant(p, b) == p # NaN /\ p * b.den < b.num

\* for i in range(k): for j in range(i + 1, k), with classes numbered from 1:
\* the pair after q, and whether the loops have run out of pairs at q.
NextPairAdjacent(q, n) == <<q[1] + 1, q[2] + 1>>
NextPairFromSelf(q, n) ==
    IF q[2] < n THEN <<q[1], q[2] + 1>> ELSE <<q[1] + 1, q[1] + 1>>
NextPair(q, n) ==
    IF q[2] < n THEN <<q[1], q[2] + 1>> ELSE <<q[1] + 1, q[1] + 2>>
PairsDone(q, n) == q[2] > n

VARIABLES
    call,               \* the function called: "rq1" or "rq2"
    nStages,            \* len(stage_classes)
    pc,                 \* position in the called function
    k,                  \* len(rider_classes) of the current analysis unit
    i,                  \* index of the normality loop
    group,              \* the sample handed to test_normality
    result,             \* what test_normality returned
    normality_results,  \* research_question_1: class index -> is_normal
    seen,               \* history: per tested group, size class, verdict, p = alpha
    all_normal,
    variance_test,
    levene_args,        \* the groups handed to levene
    main_args,          \* the groups handed to f_oneway / kruskal
    test_name,          \* main test of the unit: "none", "ANOVA", "Kruskal-Wallis"
    p_value,            \* p-value of the main test
    calls,              \* the routines the current unit has called, in order
    num_comparisons,
    bonferroni_alpha,
    pair,               \* the loop indices <<i, j>> of the next pair
    p_val,              \* p-value of the last Mann-Whitney test
    posthoc_results,
    anova_table,        \* the three p-values of the two-way ANOVA
    s,                  \* index of the stage loop
    stage_results,
    stage_log,          \* history: the strata whose main test was run
    effects,            \* which main-effect branches were reported
    error,
    ret,                \* the returned dict
    perm                \* research_question_1 on one frame in two row orders

vars ==
    <<call, nStages, pc, k, i, group, result, normality_results, seen,
      all_normal, variance_test, levene_args, main_args, test_name, p_value,
      calls, num_comparisons, bonferroni_alpha, pair, p_val, posthoc_results,
      anova_table, s, stage_results, stage_log, effects, error, ret, perm>>

NoGroup == [len |-> 0, bad |-> 0]
NoTable == [interaction |-> NoneVal, rider |-> NoneVal, stage |-> NoneVal, typ |-> 0]
NoEffects == [rider |-> "unset", stage |-> "unset"]
NoReturn == [kind |-> "none"]
EmptyMap == [x \in {} |-> FALSE]
NoOutcome ==
    [error |-> "none", test |-> "none", p_value |-> NoneVal,
     significant |-> FALSE, tukey |-> FALSE, num_comparisons |-> 0,
     posthoc_results |-> <<>>]
NoPerm ==
    [stage |-> "none", order |-> <<>>, normality |-> <<>>,
     levene |-> NoneVal, main |-> NoneVal, mannwhitneyu |-> EmptyMap,
     original |-> NoOutcome, permuted |-> NoOutcome]

\* Nothing computed yet.
Idle ==
    /\ nStages = 0
    /\ pc = "start"
    /\ k = 0
    /\ i = 0
    /\ group = NoGroup
    /\ result = NoResult
    /\ normality_results = EmptyMap
    /\ seen = <<>>
    /\ all_normal = FALSE
    /\ variance_test = NoVariance
    /\ levene_args = {}
    /\ main_args = {}
    /\ test_name = "none"
    /\ p_value = NoneVal
    /\ calls = <<>>
    /\ num_comparisons = 0
    /\ bonferroni_alpha = BonferroniAlpha(0)
    /\ pair = <<0, 0>>
    /\ p_val = NoneVal
    /\ posthoc_results = <<>>
    /\ anova_table = NoTable
    /\ s = 0
    /\ stage_results = EmptyMap
    /\ stage_log = <<>>
    /\ effects = NoEffects
    /\ error = "none"
    /\ ret = NoReturn

Init ==
    /\ call \in {"rq1", "rq2"}
    /\ Idle
    /\ perm = NoPerm

\* The groups of the unit handed to levene, f_oneway and kruskal: *groups.
PassedGroupsWithVerdict ==
    {j \in 1..k : j <= Len(seen) => seen[j].verdict # "none"}
PassedGroups == 1..k

\* History entry for the group just tested.
SeenEntry(data, r) ==
    [few |-> data.len <= LargeSample /\ data.len - data.bad < MinFinite,
     verdict |-> IF r.test = "None" THEN "none"
                 ELSE IF r.is_normal THEN "pass" ELSE "fail",
     tie |-> r.p_value = Alpha]

rq2Vars == <<anova_table, nStages, s, stage_results, stage_log, effects>>
postVars == <<num_comparisons, bonferroni_alpha, pair, p_val, posthoc_results>>
dfVars == <<call, perm>>

\* ------------------------------------------------------ research_question_1
\* rider_classes = df['rider_class'].unique(); groups = [...]
RQ1_Groups ==
    /\ call = "rq1" /\ pc = "start"
    /\ \E n \in 1..MaxGroups : k' = n
    /\ i' = 1
    /\ normality_results' = EmptyMap
    /\ pc' = "normality"
    /\ UNCHANGED <<dfVars, group, result, seen, all_normal, variance_test,
                   levene_args, main_args, test_name, p_value, calls, postVars,
                   rq2Vars, error, ret>>

\* result = test_normality(group)
RQ1_TestNormality ==
    /\ call = "rq1" /\ pc = "normality"
    /\ \E data \in Samples : \E r \in test_normality(data, Alpha) :
        /\ group' = data
        /\ result' = r
    /\ calls' = Append(calls, "test_normality")
    /\ pc' = "store"
    /\ UNCHANGED <<dfVars, k, i, normality_results, seen, all_normal,
                   variance_test, levene_args, main_args, test_name, p_value,
                   postVars, rq2Vars, error, ret>>

\* if result: normality_results[cls] = result.  Of the stored dict only
\* is_normal is read again (line 161).  group and result are not read after
\* this step and are dropped with it.
RQ1_StoreVerdict ==
    /\ call = "rq1" /\ pc = "store"
    /\ normality_results' =
         IF Truthy(result)
         THEN [j \in DOMAIN normality_results \cup {i} |->
                  IF j = i THEN result.is_normal ELSE normality_results[j]]
         ELSE normality_results
    /\ seen' = Append(seen, SeenEntry(group, result))
    /\ i' = i + 1
    /\ group' = NoGroup
    /\ result' = NoResult
    /\ pc' = IF i + 1 > k THEN "variance" ELSE "normality"
    /\ UNCHANGED <<dfVars, k, all_normal, variance_test, levene_args,
                   main_args, test_name, p_value, calls, postVars, rq2Vars,
                   error, ret>>

\* variance_test = test_variance_homogeneity(groups), in both functions
Levene(from, to) ==
    /\ pc = from
    /\ levene_args' = PassedGroups
    /\ calls' = Append(calls, "levene")
    /\ IF LeveneRaises(PassedGroups)
       THEN /\ error' = "ValueError"
            /\ pc' = "raised"
            /\ UNCHANGED variance_test
       ELSE /\ \E p \in LevenePVals :
                 variance_test' = test_variance_homogeneity(p, Alpha)
            /\ pc' = to
            /\ UNCHANGED error

RQ1_Levene ==
    /\ call = "rq1"
    /\ Levene("variance", "decide")
    /\ UNCHANGED <<dfVars, k, i, group, result, normality_results, seen,
                   all_normal, main_args, test_name, p_value, postVars,
                   rq2Vars, ret>>

AllNormalRQ1Strict(nr) == DOMAIN nr = 1..k /\ \A j \in DOMAIN nr : nr[j]
\* all([r['is_normal'] for r in normality_results.values()])
\*     if normality_results else False
AllNormalRQ1(nr) ==
    IF DOMAIN nr # {} THEN \A j \in DOMAIN nr : nr[j] ELSE FALSE

\* all_normal = ...; if all_normal and variance_test['equal_variances']
RQ1_Decide ==
    /\ call = "rq1" /\ pc = "decide"
    /\ all_normal' = AllNormalRQ1(normality_results)
    /\ pc' = IF UseAnova(all_normal', variance_test.equal_variances)
             THEN "anova" ELSE "kruskal"
    /\ UNCHANGED <<dfVars, k, i, group, result, normality_results, seen,
                   variance_test, levene_args, main_args, test_name, p_value,
                   calls, postVars, rq2Vars, error, ret>>

\* f_statistic, p_value = f_oneway(*groups); if p_value < 0.05
RQ1_Anova ==
    /\ call = "rq1" /\ pc = "anova"
    /\ test_name' = "ANOVA"
    /\ main_args' = PassedGroups
    /\ calls' = Append(calls, "f_oneway")
    /\ \E p \in MainPVals : p_value' = p
    /\ pc' = IF Significant(p_value') THEN "tukey" ELSE "return"
    /\ UNCHANGED <<dfVars, k, i, group, result, normality_results, seen,
                   all_normal, variance_test, levene_args, postVars, rq2Vars,
                   error, ret>>

\* tukey_result = pairwise_tukeyhsd(...)
RQ1_Tukey ==
    /\ call = "rq1" /\ pc = "tukey"
    /\ calls' = Append(calls, "pairwise_tukeyhsd")
    /\ pc' = "return"
    /\ UNCHANGED <<dfVars, k, i, group, result, normality_results, seen,
                   all_normal, variance_test, levene_args, main_args,
                   test_name, p_value, postVars, rq2Vars, error, ret>>

\* h_statistic, p_value = kruskal(*groups); if p_value < 0.05
RQ1_Kruskal ==
    /\ call = "rq1" /\ pc = "kruskal"
    /\ test_name' = "Kruskal-Wallis"
    /\ main_args' = PassedGroups
    /\ calls' = Append(calls, "kruskal")
    /\ \E p \in MainPVals : p_value' = p
    /\ pc' = IF Significant(p_value') THEN "bonferroni" ELSE "return"
    /\ UNCHANGED <<dfVars, k, i, group, result, normality_results, seen,
                   all_normal, variance_test, levene_args, postVars, rq2Vars,
                   error, ret>>

\* num_comparisons = ...; bonferroni_alpha = 0.05 / num_comparisons
\* (k >= 2 here: levene raised otherwise, so the division is defined)
RQ1_Bonferroni ==
    /\ call = "rq1" /\ pc = "bonferroni"
    /\ num_comparisons' = NumComparisons(k)
    /\ bonferroni_alpha' = BonferroniAlpha(num_comparisons')
    /\ posthoc_results' = <<>>
    /\ pair' = <<1, 2>>
    /\ pc' = "mannwhitney"
    /\ UNCHANGED <<dfVars, k, i, group, result, normality_results, seen,
                   all_normal, variance_test, levene_args, main_args,
                   test_name, p_value, calls, p_val, rq2Vars, error, ret>>

\* One pass of the body of the double loop: mannwhitneyu(groups[i],
\* groups[j]), significant = p_val < bonferroni_alpha, append.
RQ1_MannWhitney ==
    /\ call = "rq1" /\ pc = "mannwhitney"
    /\ ~PairsDone(pair, k)
    /\ \E p \in PairPVals(num_comparisons) : p_val' = p
    /\ posthoc_results' =
         Append(posthoc_results,
                [group1 |-> pair[1], group2 |-> pair[2],
                 significant |-> PairSignificant(p_val', bonferroni_alpha)])
    /\ calls' = Append(calls, "mannwhitneyu")
    /\ pair' = NextPair(pair, k)
    /\ pc' = IF PairsDone(pair', k) THEN "return" ELSE "mannwhitney"
    /\ UNCHANGED <<dfVars, k, i, group, result, normality_results, seen,
                   all_normal, variance_test, levene_args, main_args,
                   test_name, p_value, num_comparisons, bonferroni_alpha,
                   rq2Vars, error, ret>>

\* return {'test': ..., 'p_value': p_value, 'significant': p_value < 0.05}
RQ1_Return ==
    /\ call = "rq1" /\ pc = "return"
    /\ ret' = [kind |-> "rq1", test |-> test_name, p_value |-> p_value,
               significant |-> Significant(p_value)]
    /\ pc' = "done"
    /\ UNCHANGED <<dfVars, k, i, group, result, normality_results, seen,
                   all_normal, variance_test, levene_args, main_args,
                   test_name, p_value, calls, postVars, rq2Vars, error>>

\* ------------------------------------------------------ research_question_2
\* model = ols(...).fit(); anova_table = anova_lm(model, typ=2); the three
\* PR(>F) entries are read from the table
RQ2_TwoWayAnova ==
    /\ call = "rq2" /\ pc = "start"
    /\ \E tb \in TwoWayTables :
         anova_table' = [interaction |-> tb.interaction, rider |-> tb.rider,
                         stage |-> tb.stage, typ |-> 2]
    /\ pc' = "interaction"
    /\ UNCHANGED <<dfVars, k, i, group, result, normality_results, seen,
                   all_normal, variance_test, levene_args, main_args,
                   test_name, p_value, calls, postVars, nStages, s,
                   stage_results, stage_log, effects, error, ret>>

InteractionSignificantLe(tbl) == Le(tbl.interaction, Alpha)
\* if interaction_p < 0.05
InteractionSignificant(tbl) == Lt(tbl.interaction, Alpha)

\* if interaction_p < 0.05: stage_classes = ...; stage_results = {} / else
RQ2_Interaction ==
    /\ call = "rq2" /\ pc = "interaction"
    /\ IF InteractionSignificant(anova_table)
       THEN /\ \E n \in 1..MaxStages : nStages' = n
            /\ s' = 1
            /\ stage_results' = EmptyMap
            /\ pc' = "stage"
       ELSE /\ pc' = "effects"
            /\ UNCHANGED <<nStages, s, stage_results>>
    /\ UNCHANGED <<dfVars, k, i, group, result, normality_results, seen,
                   all_normal, variance_test, levene_args, main_args,
                   test_name, p_value, calls, postVars, anova_table,
                   stage_log, effects, error, ret>>

\* stage_df = ...; rider_classes = stage_df['rider_class'].unique();
\* groups = [...]; all_normal = True
RQ2_StageGroups ==
    /\ call = "rq2" /\ pc = "stage"
    /\ \E n \in 1..MaxGroups : k' = n
    /\ all_normal' = TRUE
    /\ i' = 1
    /\ seen' = <<>>
    /\ calls' = <<>>
    /\ levene_args' = {}
    /\ main_args' = {}
    /\ test_name' = "none"
    /\ p_value' = NoneVal
    /\ variance_test' = NoVariance
    /\ pc' = "s_normality"
    /\ UNCHANGED <<dfVars, group, result, normality_results, postVars,
                   rq2Vars, error, ret>>

\* result = test_normality(group)
RQ2_TestNormality ==
    /\ call = "rq2" /\ pc = "s_normality"
    /\ \E data \in Samples : \E r \in test_normality(data, Alpha) :
        /\ group' = data
        /\ result' = r
    /\ calls' = Append(calls, "test_normality")
    /\ pc' = "s_check"
    /\ UNCHANGED <<dfVars, k, i, normality_results, seen, all_normal,
                   variance_test, levene_args, main_args, test_name, p_value,
                   postVars, rq2Vars, error, ret>>

\* if result and not result['is_normal']: all_normal = False; break
RQ2_CheckVerdict ==
    /\ call = "rq2" /\ pc = "s_check"
    /\ seen' = Append(seen, SeenEntry(group, result))
    /\ group' = NoGroup
    /\ result' = NoResult
    /\ IF Truthy(result) /\ ~result.is_normal
       THEN /\ all_normal' = FALSE
            /\ pc' = "s_variance"
            /\ UNCHANGED i
       ELSE /\ i' = i + 1
            /\ pc' = IF i + 1 > k THEN "s_variance" ELSE "s_normality"
            /\ UNCHANGED all_normal
    /\ UNCHANGED <<dfVars, k, normality_results, variance_test, levene_args,
                   main_args, test_name, p_value, calls, postVars, rq2Vars,
                   error, ret>>

RQ2_Levene ==
    /\ call = "rq2"
    /\ Levene("s_variance", "s_main")
    /\ UNCHANGED <<dfVars, k, i, group, result, normality_results, seen,
                   all_normal, main_args, test_name, p_value, postVars,
                   rq2Vars, ret>>

\* if all_normal and equal_variances: f_oneway(*groups) else kruskal(*groups)
RQ2_MainTest ==
    /\ call = "rq2" /\ pc = "s_main"
    /\ IF UseAnova(all_normal, variance_test.equal_variances)
       THEN /\ test_name' = "ANOVA"
            /\ calls' = Append(calls, "f_oneway")
       ELSE /\ test_name' = "Kruskal-Wallis"
            /\ calls' = Append(calls, "kruskal")
    /\ main_args' = PassedGroups
    /\ \E p \in MainPVals : p_value' = p
    /\ stage_log' = Append(stage_log, s)
    /\ pc' = "s_store"
    /\ UNCHANGED <<dfVars, k, i, group, result, normality_results, seen,
                   all_normal, variance_test, levene_args, postVars,
                   anova_table, nStages, s, stage_results, effects, error,
                   ret>>

\* stage_results[stage_cls] = {...'significant': p_val < 0.05}; next stage
RQ2_StoreStage ==
    /\ call = "rq2" /\ pc = "s_store"
    /\ stage_results' =
         [j \in DOMAIN stage_results \cup {s} |->
            IF j = s
            THEN [test |-> test_name, p_value |-> p_value,
                  significant |-> Significant(p_value)]
            ELSE stage_results[j]]
    /\ s' = s + 1
    /\ pc' = IF s + 1 > nStages THEN "effects" ELSE "stage"
    /\ UNCHANGED <<dfVars, k, i, group, result, normality_results, seen,
                   all_normal, variance_test, levene_args, main_args,
                   test_name, p_value, calls, postVars, anova_table, nStages,
                   stage_log, effects, error, ret>>

\* if rider_main_p < 0.05 ... if stage_main_p < 0.05 ...
RQ2_MainEffects ==
    /\ call = "rq2" /\ pc = "effects"
    /\ effects' =
         [rider |-> IF Significant(anova_table.rider)
                    THEN "SIGNIFICANT" ELSE "NOT SIGNIFICANT",
          stage |-> IF Significant(anova_table.stage)
                    THEN "SIGNIFICANT" ELSE "NOT SIGNIFICANT"]
    /\ pc' = "return"
    /\ UNCHANGED <<dfVars, k, i, group, result, normality_results, seen,
                   all_normal, variance_test, levene_args, main_args,
                   test_name, p_value, calls, postVars, anova_table, nStages,
                   s, stage_results, stage_log, error, ret>>

RQ2ResultDropped(tbl) ==
    [kind |-> "rq2", interaction_p |-> tbl.interaction,
     rider_main_p |-> IF Lt(tbl.interaction, Alpha) THEN NoneVal ELSE tbl.rider,
     stage_main_p |-> IF Lt(tbl.interaction, Alpha) THEN NoneVal ELSE tbl.stage,
     typ |-> tbl.typ]
\* return {'interaction_p': ..., 'rider_main_p': ..., 'stage_main_p': ...,
\*         'anova_table': anova_table}
RQ2Result(tbl) ==
    [kind |-> "rq2", interaction_p |-> tbl.interaction,
     rider_main_p |-> tbl.rider, stage_main_p |-> tbl.stage, typ |-> tbl.typ]

RQ2_Return ==
    /\ call = "rq2" /\ pc = "return"
    /\ ret' = RQ2Result(anova_table)
    /\ pc' = "done"
    /\ UNCHANGED <<dfVars, k, i, group, result, normality_results, seen,
                   all_normal, variance_test, levene_args, main_args,
                   test_name, p_value, calls, postVars, rq2Vars, error>>

\* ------------------------------- research_question_1 in two row orders
\* research_question_1 computed in one piece on a frame whose rider classes
\* appear in the order `order` (df['rider_class'].unique() follows the rows),
\* every library routine answering from lib: test_normality's result for
\* the sample of a class, the p-value of levene and of the main test for
\* the samples taken together, and the two-sided mannwhitneyu p-value of a
\* pair of samples.  scipy computes each of them from the samples alone,
\* whatever the position of a sample among the arguments.

\* Lines 137-173 and 206-212: normality loop, levene, path, main test.
MainTest(order, lib) ==
    LET n == Len(order)
        results == [j \in 1..n |-> lib.normality[order[j]]]
        nr == [j \in {a \in 1..n : Truthy(results[a])} |->
                 results[j].is_normal]
        vt == test_variance_homogeneity(lib.levene, Alpha)
    IN  IF LeveneRaises(1..n)
        THEN [error |-> "ValueError", test |-> "none",
              p_value |-> NoneVal, significant |-> FALSE]
        ELSE [error |-> "none",
              test |-> IF UseAnova(AllNormalRQ1(nr), vt.equal_variances)
                       THEN "ANOVA" ELSE "Kruskal-Wallis",
              p_value |-> lib.main,
              significant |-> Significant(lib.main)]

\* Lines 229-244: the double loop from the pair q on.
RECURSIVE MannWhitneyLoop(_, _, _, _, _)
MannWhitneyLoop(q, order, lib, b, acc) ==
    IF PairsDone(q, Len(order))
    THEN acc
    ELSE LET p == lib.mannwhitneyu[{order[q[1]], order[q[2]]}] IN
         MannWhitneyLoop(NextPair(q, Len(order)), order, lib, b,
             Append(acc, [group1 |-> order[q[1]], group2 |-> order[q[2]],
                          p_value |-> p,
                          significant |-> PairSignificant(p, b)]))

NeedsPairs(m) == m.test = "Kruskal-Wallis" /\ m.significant

research_question_1(order, lib) ==
    LET m == MainTest(order, lib)
        n == NumComparisons(Len(order))
    IN  [error |-> m.error, test |-> m.test, p_value |-> m.p_value,
         significant |-> m.significant,
         tukey |-> (m.test = "ANOVA" /\ m.significant),
         num_comparisons |-> IF NeedsPairs(m) THEN n ELSE 0,
         posthoc_results |->
            IF NeedsPairs(m)
            THEN MannWhitneyLoop(<<1, 2>>, order, lib, BonferroniAlpha(n),
                                 <<>>)
            ELSE <<>>]

\* The frames: up to MaxGroups classes, labelled by their position in the
\* original frame, the order in which they appear once the rows are
\* permuted, and what the library returns for their samples.
Orders(n) ==
    {f \in [1..n -> 1..n] : \A a, b \in 1..n : a # b => f[a] # f[b]}
Identity(n) == [j \in 1..n |-> j]
PermVerdicts ==
    {NoResult, ShapiroVerdict(Alpha, Alpha), ShapiroVerdict(Alpha + 1, Alpha)}
PermPairPVals(n) == {(Alpha \div n) - 1, Alpha \div n}
LabelPairs(n) == {{a, b} : a, b \in 1..n} \ {{a} : a \in 1..n}
Frames ==
    UNION {[stage : {"frame"}, order : Orders(n),
            normality : [1..n -> PermVerdicts],
            levene : LevenePVals, main : MainPVals,
            mannwhitneyu : {EmptyMap},
            original : {NoOutcome}, permuted : {NoOutcome}] :
           n \in 1..MaxGroups}

runVars ==
    <<call, nStages, pc, k, i, group, result, normality_results, seen,
      all_normal, variance_test, levene_args, main_args, test_name, p_value,
      calls, num_comparisons, bonferroni_alpha, pair, p_val, posthoc_results,
      anova_table, s, stage_results, stage_log, effects, error, ret>>

\* research_question_1(df) on the frame as given; the Mann-Whitney
\* p-values are drawn when the call gets to the pairwise loop.
Perm_Original ==
    /\ perm.stage = "frame"
    /\ LET n == Len(perm.order) IN
       \E mw \in IF NeedsPairs(MainTest(Identity(n), perm))
                 THEN [LabelPairs(n) -> PermPairPVals(NumComparisons(n))]
                 ELSE {EmptyMap} :
          LET lib == [perm EXCEPT !.mannwhitneyu = mw] IN
          perm' = [lib EXCEPT
                     !.stage = "original",
                     !.original = research_question_1(Identity(n), lib)]
    /\ UNCHANGED runVars

\* research_question_1(df) on the same frame with its rows permuted.
Perm_Permuted ==
    /\ perm.stage = "original"
    /\ perm' = [perm EXCEPT
                  !.stage = "permuted",
                  !.permuted = research_question_1(perm.order, perm)]
    /\ UNCHANGED runVars

\* ------------------------------------------------------------ specification
Next ==
    \/ RQ1_Groups
    \/ RQ1_TestNormality
    \/ RQ1_StoreVerdict
    \/ RQ1_Levene
    \/ RQ1_Decide
    \/ RQ1_Anova
    \/ RQ1_Tukey
    \/ RQ1_Kruskal
    \/ RQ1_Bonferroni
    \/ RQ1_MannWhitney
    \/ RQ1_Return
    \/ RQ2_TwoWayAnova
    \/ RQ2_Interaction
    \/ RQ2_StageGroups
    \/ RQ2_TestNormality
    \/ RQ2_CheckVerdict
    \/ RQ2_Levene
    \/ RQ2_MainTest
    \/ RQ2_StoreStage
    \/ RQ2_MainEffects
    \/ RQ2_Return

Spec == Init /\ [][Next]_vars

InitPerm ==
    /\ call = "rq1"
    /\ Idle
    /\ perm \in Frames

NextPerm ==
    \/ Perm_Original
    \/ Perm_Permuted

SpecPerm == InitPerm /\ [][NextPerm]_vars

\* ------------------------------------------------------------------ claims
\* Positions and facts the claims speak about, stated on the state alone.
AtVerdict == pc \in {"store", "s_check"}
InStratum ==
    pc \in {"stage", "s_normality", "s_check", "s_variance", "s_main", "s_store"}
UnitFinished ==
    (call = "rq1" /\ pc \in {"return", "done"}) \/ (call = "rq2" /\ pc = "s_store")
MainRun == test_name # "none"
Below(p, num, den) == p >= 0 /\ p * den < num
Above(p, n) == p >= 0 /\ p > n
AvailablePass == \A j \in 1..Len(seen) : seen[j].verdict # "fail"
SomeAvailable == \E j \in 1..Len(seen) : seen[j].verdict # "none"
SomeMissing == \E j \in 1..Len(seen) : seen[j].verdict = "none"
LevenePassed == Above(variance_test.p_value, Alpha)
Called(names) == {n \in 1..Len(calls) : calls[n] \in names}
MainCalls == Cardinality(Called({"f_oneway", "kruskal"}))
PostHocRun == Called({"pairwise_tukeyhsd", "mannwhitneyu"}) # {}
IntSig == Below(anova_table.interaction, Alpha, 1)
UnorderedPairs(n) == {q \in (1..n) \X (1..n) : q[1] < q[2]}
LastEntry == posthoc_results[Len(posthoc_results)]
StrictestLevels == {c[Len(c)] : c \in AndersonCriticals}
Finite(d) == d.len - d.bad
Malformed(d) == d.len = 0 \/ d.bad > 0

C2_AsStated == (MainRun /\ SomeMissing) => test_name = "Kruskal-Wallis"

\* C2 (amended): a unit in which some group yields no normality verdict is
\* routed to Kruskal-Wallis iff an available verdict fails, or Levene fails,
\* or (research_question_1 only) no group at all yields a verdict; otherwise
\* it is routed to ANOVA.
C2_MissingVerdict ==
    (MainRun /\ SomeMissing) =>
        (test_name = "Kruskal-Wallis" <=>
            \/ ~AvailablePass
            \/ ~LevenePassed
            \/ (call = "rq1" /\ ~SomeAvailable))

C2_Witness == MainRun /\ SomeMissing /\ test_name = "ANOVA" /\ call = "rq1"

\* C3 (as stated): a post-hoc procedure runs only after a significant main
\* test of a group set with more than two levels.
C3_AsStated == PostHocRun => (Below(p_value, Alpha, 1) /\ k > 2)

\* C3 (amended): a post-hoc procedure runs only after a significant main
\* test (p < 0.05) of the same unit, Tukey only after ANOVA and Mann-Whitney
\* only after Kruskal-Wallis; the number of levels is not checked.
C3_PostHocGuard ==
    /\ PostHocRun => Below(p_value, Alpha, 1)
    /\ pc \in {"tukey", "bonferroni", "mannwhitney"} => Below(p_value, Alpha, 1)
    /\ Called({"pairwise_tukeyhsd"}) # {} =>
         (test_name = "ANOVA" /\ Called({"mannwhitneyu"}) = {})
    /\ Called({"mannwhitneyu"}) # {} => test_name = "Kruskal-Wallis"

C3_Witness == PostHocRun /\ k = 2 /\ pc = "done"

\* C4: the corrected threshold is 0.05 / C(k,2) and a pair is significant
\* iff its raw p-value is strictly below it.
C4_Bonferroni ==
    (pc = "mannwhitney" \/ posthoc_results # <<>>) =>
        LET n == Cardinality(UnorderedPairs(k)) IN
        /\ num_comparisons = n
        /\ bonferroni_alpha = [num |-> Alpha, den |-> n]
        /\ posthoc_results # <<>> =>
             (LastEntry.significant <=> Below(p_val, Alpha, n))

C4_Witness ==
    /\ posthoc_results # <<>>
    /\ k > 2
    /\ ~LastEntry.significant
    /\ Below(p_val, Alpha, 1)

C6_Routing ==
    AtVerdict =>
        /\ group.len > LargeSample =>
             /\ result.test = "Anderson-Darling"
             /\ result.p_value = NoneVal
             /\ result.critical_value \in StrictestLevels
             /\ result.is_normal <=>
                  (result.statistic # NaN
                     /\ result.statistic < result.critical_value)
        /\ group.len <= LargeSample =>
             /\ result.test \in {"None", "Shapiro-Wilk"}
             /\ result.test = "Shapiro-Wilk" => result.p_value # NoneVal

C6_Witness ==
    AtVerdict /\ group.len = LargeSample + 1 /\ result.is_normal

\* C7: a sample with fewer than 3 finite values gets no normality verdict,
\* and its group is still handed to, and accepted by, Levene and the main
\* test.
C7_FewFinite ==
    /\ (AtVerdict /\ group.len <= LargeSample /\ Finite(group) < MinFinite) =>
         ~Truthy(result)
    /\ \A j \in 1..Len(seen) :
         seen[j].few =>
            /\ seen[j].verdict = "none"
            /\ call = "rq1" => j \notin DOMAIN normality_results
    /\ Called({"levene"}) # {} =>
         /\ levene_args = 1..k
         /\ (error = "none") = (k >= 2)
    /\ MainRun => (main_args = 1..k /\ error = "none")

C7_Witness ==
    /\ MainRun
    /\ \E j \in 1..Len(seen) :
         seen[j].few /\ j \in levene_args /\ j \in main_args

\* C8: every threshold comparison is strict; a p-value equal to its
\* threshold is never significant and never passes an assumption, and on an
\* assumption check it forces Kruskal-Wallis.
C8_Strict ==
    /\ (AtVerdict /\ result.test = "Shapiro-Wilk" /\ result.is_normal) =>
         Above(result.p_value, Alpha)
    /\ (AtVerdict /\ result.test = "Anderson-Darling" /\ result.is_normal) =>
         result.statistic < result.critical_value
    /\ variance_test.equal_variances => Above(variance_test.p_value, Alpha)
    /\ PostHocRun => Below(p_value, Alpha, 1)
    /\ (ret.kind = "rq1" /\ ret.significant) => Below(ret.p_value, Alpha, 1)
    /\ \A j \in DOMAIN stage_results :
         stage_results[j].significant =>
            Below(stage_results[j].p_value, Alpha, 1)
    /\ InStratum => Below(anova_table.interaction, Alpha, 1)
    /\ effects.rider = "SIGNIFICANT" => Below(anova_table.rider, Alpha, 1)
    /\ effects.stage = "SIGNIFICANT" => Below(anova_table.stage, Alpha, 1)
    /\ (posthoc_results # <<>> /\ LastEntry.significant) =>
         Below(p_val, Alpha, num_comparisons)
    /\ (MainRun /\ variance_test.p_value = Alpha) =>
         test_name = "Kruskal-Wallis"
    /\ (MainRun /\ \E j \in 1..Len(seen) : seen[j].tie) =>
         test_name = "Kruskal-Wallis"

C8_Witness ==
    /\ MainRun /\ test_name = "Kruskal-Wallis"
    /\ variance_test.p_value = Alpha
    /\ AvailablePass /\ SomeAvailable

\* C9: research_question_2 always runs the Type II two-way ANOVA first, and
\* its result always holds the three p-values of that table.
C9_TwoWay ==
    call = "rq2" =>
        /\ pc = "start" => (calls = <<>> /\ seen = <<>> /\ ~MainRun)
        /\ pc # "start" =>
             /\ anova_table.typ = 2
             /\ anova_table.interaction # NoneVal
             /\ anova_table.rider # NoneVal
             /\ anova_table.stage # NoneVal
        /\ pc = "done" =>
             /\ ret.kind = "rq2"
             /\ ret.typ = 2
             /\ ret.interaction_p = anova_table.interaction
             /\ ret.rider_main_p = anova_table.rider
             /\ ret.stage_main_p = anova_table.stage
        /\ pc # "done" => ret = NoReturn

C9_Witness ==
    /\ call = "rq2" /\ pc = "done"
    /\ \E j \in DOMAIN stage_results : stage_results[j].test = "Kruskal-Wallis"

\* C10 (as stated): test_normality on an empty sample or on a sample holding
\* non-finite values fails with an error.
C10_AsStated == (AtVerdict /\ Malformed(group)) => error # "none"

\* What test_normality has returned for an empty sample or one holding
\* non-finite values.
C10_Verdict ==
    (AtVerdict /\ Malformed(group)) =>
        /\ error = "none"
        /\ group.len <= LargeSample =>
             /\ ~Truthy(result) <=> Finite(group) < MinFinite
             /\ Truthy(result) => result.test = "Shapiro-Wilk"
        /\ group.len > LargeSample =>
             /\ result.test = "Anderson-Darling"
             /\ group.bad > 0 =>
                  (result.statistic = NaN /\ ~result.is_normal)

\* The step after such a call goes on with the next group or with Levene.
C10_Proceeds ==
    (AtVerdict /\ Malformed(group)) =>
        /\ error' = "none"
        /\ pc' \in {"normality", "variance", "s_normality", "s_variance"}
        /\ Len(seen') = Len(seen) + 1

\* C10 (amended): test_normality never raises on an empty sample or on one
\* holding non-finite values.  Up to 5000 observations the non-finite values
\* are dropped silently: fewer than 3 finite values left give no verdict,
\* 3 or more a Shapiro-Wilk verdict.  Above 5000 they are handed to
\* Anderson-Darling undropped, whose NaN statistic fails the check.  In
\* every case the decision sequence goes on to the next group or to Levene.
C10_Malformed == [](C10_Verdict) /\ [][C10_Proceeds]_vars

C10_Witness ==
    AtVerdict /\ group.bad > 0 /\ result.test = "Shapiro-Wilk"

\* C14: the non-parametric post-hoc on k groups makes exactly k(k-1)/2
\* Mann-Whitney comparisons: every entry compares two distinct classes
\* (i, j) with i < j, the entries come in the order of the double loop over
\* the classes in first-appearance order, so no pair is compared twice, one
\* entry is kept per call of mannwhitneyu, and when the loops end the
\* compared pairs are all the unordered pairs and their number is the
\* reported num_comparisons.
PairOf(e) == <<e.group1, e.group2>>
LoopOrder(a, b) == a[1] < b[1] \/ (a[1] = b[1] /\ a[2] < b[2])
C14_Pairs ==
    (call = "rq1" /\ (pc = "mannwhitney" \/ posthoc_results # <<>>)) =>
        LET n == Len(posthoc_results) IN
        /\ \A m \in 1..n : PairOf(posthoc_results[m]) \in UnorderedPairs(k)
        /\ \A a, b \in 1..n :
             a < b => LoopOrder(PairOf(posthoc_results[a]),
                                PairOf(posthoc_results[b]))
        /\ n = Cardinality(Called({"mannwhitneyu"}))
        /\ n <= num_comparisons
        /\ 2 * num_comparisons = k * (k - 1)
        /\ pc \in {"return", "done"} =>
             /\ n = num_comparisons
             /\ {PairOf(posthoc_results[m]) : m \in 1..n} = UnorderedPairs(k)

C14_Witness ==
    /\ pc = "done" /\ k = 3
    /\ Len(posthoc_results) = 3
    /\ PairOf(posthoc_results[3]) = <<2, 3>>

\* C13 (as stated): in the stratified re-analysis every stratum whose main
\* test is significant and which has more than two rider classes has run,
\* before it is finished, the post-hoc procedure matching its path: Tukey
\* HSD after ANOVA, Bonferroni-corrected Mann-Whitney after Kruskal-Wallis.
C13_AsStated ==
    (call = "rq2" /\ pc = "s_store" /\ k > 2
        /\ Below(p_value, Alpha, 1)) =>
        /\ test_name = "ANOVA" => Called({"pairwise_tukeyhsd"}) # {}
        /\ test_name = "Kruskal-Wallis" => Called({"mannwhitneyu"}) # {}

\* C15 (as stated): when the computation of one stratum fails (here: Levene
\* on a stratum with a single rider class), the failure does not block or
\* corrupt the sibling strata: once research_question_2 has ended, every
\* other stage_class level has its own verdict, those recorded before the
\* failure included.
C15_AsStated ==
    (call = "rq2" /\ error # "none") =>
        /\ pc = "raised"
        /\ \A j \in (1..nStages) \ {s} : j \in DOMAIN stage_results

\* The position of a library call in the forward pass of a unit: normality
\* checks, variance check, main test, post-hoc.
Step(c) ==
    CASE c = "test_normality" -> 1
      [] c = "levene" -> 2
      [] c \in {"f_oneway", "kruskal"} -> 3
      [] OTHER -> 4

\* The order half of C12: within a unit the calls never step backwards, the
\* variance check and the main test are made at most once, the main test
\* only after a variance check that returned, a post-hoc call only after a
\* significant main test of the same path.
C12_Order ==
    /\ \A a, b \in 1..Len(calls) : a < b => Step(calls[a]) <= Step(calls[b])
    /\ Cardinality(Called({"levene"})) <= 1
    /\ MainCalls <= 1
    /\ Cardinality(Called({"pairwise_tukeyhsd"})) <= 1
    /\ MainRun => (Called({"levene"}) # {} /\ error = "none")
    /\ PostHocRun => (MainRun /\ Below(p_value, Alpha, 1))
    /\ Called({"pairwise_tukeyhsd"}) # {} => test_name = "ANOVA"
    /\ Called({"mannwhitneyu"}) # {} => test_name = "Kruskal-Wallis"

\* The progress half of C12 in finite-run form: a call that has not
\* returned can always take its next step.
C12_Progress == pc = "done" \/ ENABLED Next

\* C12 (as stated): every unit is a single forward pass START ->
\* NORMALITY_CHECKED -> VARIANCE_CHECKED -> (PARAMETRIC_PATH or
\* NONPARAMETRIC_PATH) -> MAIN_TEST_DONE -> (POSTHOC_DONE or SKIPPED) ->
\* DONE, with nothing revisited, and every unit reaches DONE.
C12_AsStated == C12_Order /\ C12_Progress

LeveneDegenerate == variance_test.p_value = NaN
C16_Fallback ==
    LeveneDegenerate =>
        /\ error = "none" /\ pc # "raised"
        /\ ~variance_test.equal_variances
        /\ pc \notin {"anova", "tukey"}
        /\ Called({"f_oneway", "pairwise_tukeyhsd"}) = {}
        /\ MainRun => test_name = "Kruskal-Wallis"
        /\ UnitFinished => (MainRun /\ MainCalls = 1)
        /\ pc = "done" /\ call = "rq1" =>
             (ret.test = "Kruskal-Wallis" /\ ret.p_value = p_value)
C16_ReachesVerdict ==
    /\ MainRun /\ test_name = "Kruskal-Wallis"
    /\ call = "rq1" => pc = "done"

Compared(out) ==
    {[classes |-> {e.group1, e.group2}, p_value |-> e.p_value,
      significant |-> e.significant] :
        e \in {out.posthoc_results[m] : m \in 1..Len(out.posthoc_results)}}
C11_Permutation ==
    perm.stage = "permuted" =>
        /\ perm.permuted.error = perm.original.error
        /\ perm.permuted.test = perm.original.test
        /\ perm.permuted.p_value = perm.original.p_value
        /\ perm.permuted.significant = perm.original.significant
        /\ perm.permuted.tukey = perm.original.tukey
        /\ perm.permuted.num_comparisons = perm.original.num_comparisons
        /\ Len(perm.permuted.posthoc_results)
             = Len(perm.original.posthoc_results)
        /\ Compared(perm.permuted) = Compared(perm.original)

C11_Witness ==
    /\ perm.stage = "permuted"
    /\ Len(perm.order) = 3
    /\ perm.order # Identity(3)
    /\ Len(perm.original.posthoc_results) = 3
    /\ perm.permuted.posthoc_results # perm.original.posthoc_results
    /\ \E e \in Compared(perm.original) : e.significant
    /\ \E e \in Compared(perm.original) : ~e.significant

====
